---- MODULE Spec2Model ----
(***************************************************************************)
(* A model of ffmpeg_normalize/_streams.py: the per-audio-stream           *)
(* normalization state (AudioStream.loudness_statistics), the two first-   *)
(* pass parsers, the two second-pass option builders and get_pcm_codec.    *)
(*                                                                         *)
(* Decibel values are fixed-point integers in tenths of a dB (-3.1 dB is   *)
(* -31); the number texts the model feeds to float() carry at most one     *)
(* fractional digit, so the fixed-point value is the exact decimal value.  *)
(* Binary floating-point rounding is outside the model.                    *)
(*                                                                         *)
(* Engine output (the return value of run_command) is an input of each     *)
(* parse call: a sequence of at most MaxLines lines over a small alphabet. *)
(***************************************************************************)
EXTENDS Integers, Sequences, FiniteSets, TLC

VARIABLES
    streams,              \* the AudioStream objects that were constructed
    loudness_statistics,  \* stream -> [ebu, mean, max]
    bit_depth,            \* stream -> bit depth or None
    first_pass,           \* stream -> the first-pass methods called and returned so far
    last                  \* the most recent call: inputs, outcome, return value, warnings

vars == <<streams, loudness_statistics, bit_depth, first_pass, last>>

-----------------------------------------------------------------------------
(* Bounds *)

MaxLines == 3
MaxBitDepth == 66

-----------------------------------------------------------------------------
(* Python values *)

None == [tag |-> "None"]
Float(v) == [tag |-> "float", v |-> v]
PyInt(v) == [tag |-> "int", v |-> v]
Str(v) == [tag |-> "str", v |-> v]
\* a dict is its set of <<key, value>> items, a list its sequence of items
Dict(items) == [tag |-> "dict", items |-> items]
List(items) == [tag |-> "list", items |-> items]

HasKey(d, k) == \E item \in d.items : item[1] = k
Get(d, k) == (CHOOSE item \in d.items : item[1] = k)[2]

\* Python truth value testing: `not x` is Falsy(x)
Falsy(x) ==
    \/ x = None
    \/ x.tag = "int" /\ x.v = 0
    \/ x.tag = "dict" /\ x.items = {}
    \/ x.tag = "list" /\ x.items = <<>>

IsNone(x) == x = None

SeqsUpTo(S, n) == UNION {[1..k -> S] : k \in 0..n}

RECURSIVE SelectIdx(_, _, _)
\* the indices i >= from of seq with P-membership, in order
SelectIdx(seq, S, from) ==
    IF from > Len(seq) THEN <<>>
    ELSE (IF seq[from] \in S THEN <<from>> ELSE <<>>) \o SelectIdx(seq, S, from + 1)

-----------------------------------------------------------------------------
(* float(str) and str(float), on texts given as sequences of characters *)

DigitChars == {"0", "1", "2", "3", "4", "5", "6", "7", "8", "9"}

DigitVal(c) ==
    CASE c = "0" -> 0 [] c = "1" -> 1 [] c = "2" -> 2 [] c = "3" -> 3 [] c = "4" -> 4
      [] c = "5" -> 5 [] c = "6" -> 6 [] c = "7" -> 7 [] c = "8" -> 8 [] c = "9" -> 9

RECURSIVE DigitsVal(_)
DigitsVal(ds) ==
    IF ds = <<>> THEN 0
    ELSE 10 * DigitsVal(SubSeq(ds, 1, Len(ds) - 1)) + DigitVal(ds[Len(ds)])

AllIn(seq, S) == \A i \in 1..Len(seq) : seq[i] \in S

\* float(text): [ok |-> TRUE, v |-> tenths] or [ok |-> FALSE] for ValueError.
\* Python accepts an optional sign, digits with at most one point, and at
\* least one digit ("1.", ".5" and "-.5" are floats; "-", "." and "1.2.3" are not).
PyFloat(text) ==
    LET neg == text # <<>> /\ text[1] = "-"
        body == IF neg THEN Tail(text) ELSE text
        dots == SelectIdx(body, {"."}, 1)
        ip == IF dots = <<>> THEN body ELSE SubSeq(body, 1, dots[1] - 1)
        fp == IF dots = <<>> THEN <<>> ELSE SubSeq(body, dots[1] + 1, Len(body))
        wellformed == /\ Len(dots) <= 1
                      /\ AllIn(ip, DigitChars)
                      /\ AllIn(fp, DigitChars)
                      /\ Len(ip) + Len(fp) >= 1
                      /\ Len(fp) <= 1
        mag == 10 * DigitsVal(ip) + DigitsVal(fp)
    IN  IF wellformed THEN [ok |-> TRUE, v |-> IF neg THEN 0 - mag ELSE mag]
        ELSE [ok |-> FALSE]

\* '{}'.format(x) of a float: sign, integer part, point, fractional digit
FormatFloat(v) ==
    LET mag == IF v < 0 THEN 0 - v ELSE v
    IN  (IF v < 0 THEN "-" ELSE "") \o ToString(mag \div 10) \o "." \o ToString(mag % 10)

-----------------------------------------------------------------------------
(* Engine output of the volumedetect pass: lines "<key>: <val> dB" *)

VolLine(key, val) == [key |-> key, val |-> val]

VolLines ==
    { VolLine("mean_volume", <<"-", "1", "3", ".", "2">>),
      VolLine("mean_volume", <<"-", "1", ".", "0">>),
      VolLine("mean_volume", <<"1", ".", "2", ".", "3">>),
      VolLine("mean_volume", <<"-", "i", "n", "f">>),
      VolLine("max_volume", <<"-", "3", ".", "1">>),
      VolLine("max_volume", <<"-", "1", ".", "0">>),
      VolLine("max_volume", <<"-">>),
      VolLine("n_samples", <<"4", "8", "0", "0", "0">>) }

VolOutputs == SeqsUpTo(VolLines, MaxLines)

\* the character class [\-\d\.] of both regular expressions
NumClass == DigitChars \cup {"-", "."}

\* one line against r"<key>: ([\-\d\.]+) dB"
LineMatches(key, line) ==
    /\ line.key = key
    /\ line.val # <<>>
    /\ AllIn(line.val, NumClass)

RECURSIVE FindAll(_, _)
\* re.findall(r"<key>: ([\-\d\.]+) dB", output): the captured groups, in order
FindAll(key, output) ==
    IF output = <<>> THEN <<>>
    ELSE (IF LineMatches(key, Head(output)) THEN <<Head(output).val>> ELSE <<>>)
         \o FindAll(key, Tail(output))

-----------------------------------------------------------------------------
(* Normalization policy: the attributes of media_file.ffmpeg_normalize *)

NormalizationTypes == {"ebu", "rms", "peak"}
TargetLevels == {-230, -200, -50, 0, 10}

Policies ==
    [normalization_type : NormalizationTypes,
     target_level : TargetLevels,
     loudness_range_target : {70},
     true_peak : {-20},
     offset : {5},
     dual_mono : BOOLEAN]

-----------------------------------------------------------------------------
(* Outcomes of a call *)

\* ret: the value returned; warnings: the logger.warning messages of the call;
\* opts: the option mapping handed to dict_to_filter_opts, in insertion order
ReturnedWith(ret, warnings, opts) ==
    [outcome |-> "return", error |-> "", message |-> "", ret |-> ret,
     warnings |-> warnings, opts |-> opts]

Returned(ret, warnings) == ReturnedWith(ret, warnings, <<>>)

Raised(error, message, warnings) ==
    [outcome |-> "raise", error |-> error, message |-> message, ret |-> None,
     warnings |-> warnings, opts |-> <<>>]

MeanValueOf(matches) == PyFloat(matches[1])

\* the last max_volume match instead of the first
MaxValueOfLast(matches) == PyFloat(matches[Len(matches)])

MaxValueOf(matches) == PyFloat(matches[1])

\* the outcome of the volumedetect pass on well-formed matches, or the error
VolumedetectMutantBase(stats, output, mean, max) ==
    IF FindAll("mean_volume", output) = <<>> \/ FindAll("max_volume", output) = <<>> THEN
        [stats |-> stats,
         result |-> Raised("FFmpegNormalizeError", "Could not get mean volume", <<>>)]
    ELSE IF ~mean.ok \/ ~max.ok THEN
        [stats |-> stats,
         result |-> Raised("ValueError", "could not convert string to float", <<>>)]
    ELSE
        [stats |-> [stats EXCEPT !.mean = Float(mean.v), !.max = Float(max.v)],
         result |-> Returned(None, <<>>)]

\* a volumedetect pass that also files its maximum under 'ebu'
VolumedetectStatsIntoEbu(stats, output) ==
    LET r == VolumedetectMutantBase(stats, output,
                                    PyFloat(FindAll("mean_volume", output)[1]),
                                    PyFloat(FindAll("max_volume", output)[1]))
    IN  IF r.result.outcome = "return"
        THEN [r EXCEPT !.stats.ebu = r.stats.max]
        ELSE r

\* a volumedetect pass that resets the other family
VolumedetectStatsClearsEbu(stats, output) ==
    LET r == VolumedetectMutantBase(stats, output,
                                    PyFloat(FindAll("mean_volume", output)[1]),
                                    PyFloat(FindAll("max_volume", output)[1]))
    IN  [r EXCEPT !.stats.ebu = None]

\* a volumedetect pass that takes the last mean_volume match once 'mean' is populated
VolumedetectStatsLastOnRerun(stats, output) ==
    LET means == FindAll("mean_volume", output)
    IN  VolumedetectMutantBase(stats, output,
                               PyFloat(means[IF stats.mean = None THEN 1 ELSE Len(means)]),
                               PyFloat(FindAll("max_volume", output)[1]))

\* AudioStream.parse_volumedetect_stats on engine output `output`:
\* the statistics record after the call and how the call ended
VolumedetectStats(stats, output) ==
    LET mean_volume_matches == FindAll("mean_volume", output)
        max_volume_matches == FindAll("max_volume", output)
        mean == MeanValueOf(mean_volume_matches)
        max == MaxValueOf(max_volume_matches)
        stats1 == [stats EXCEPT !.mean = Float(mean.v)]
        stats2 == [stats1 EXCEPT !.max = Float(max.v)]
    IN  IF mean_volume_matches = <<>> THEN
            [stats |-> stats,
             result |-> Raised("FFmpegNormalizeError", "Could not get mean volume", <<>>)]
        ELSE IF ~mean.ok THEN
            [stats |-> stats,
             result |-> Raised("ValueError", "could not convert string to float", <<>>)]
        ELSE IF max_volume_matches = <<>> THEN
            [stats |-> stats1,
             result |-> Raised("FFmpegNormalizeError", "Could not get max volume", <<>>)]
        ELSE IF ~max.ok THEN
            [stats |-> stats1,
             result |-> Raised("ValueError", "could not convert string to float", <<>>)]
        ELSE
            [stats |-> stats2, result |-> Returned(None, <<>>)]

\* a gain that takes the other statistic for each policy
AdjustmentSwapped(normalization_type, target_level, stats) ==
    IF normalization_type = "peak" THEN 0 + target_level - stats.mean.v
    ELSE target_level - stats.max.v

\* the gain of get_second_pass_opts_peakrms, lines 193-198; both operands populated
Adjustment(normalization_type, target_level, stats) ==
    IF normalization_type = "peak" THEN 0 + target_level - stats.max.v
    ELSE target_level - stats.mean.v

\* a clipping test that also fires at the boundary
ClipsAtBoundary(stats, adjustment) == stats.max.v + adjustment >= 0

\* the clipping test of line 209
Clips(stats, adjustment) == stats.max.v + adjustment > 0

\* a builder for which clipping is an error
PeakrmsClippingFatal(stats, policy) ==
    LET operand == IF policy.normalization_type = "peak" THEN stats.max ELSE stats.mean
        adjustment == Adjustment(policy.normalization_type, policy.target_level, stats)
    IN  IF policy.normalization_type \notin {"peak", "rms"} THEN
            Raised("FFmpegNormalizeError",
                   "Can only set adjustment for peak and RMS normalization", <<>>)
        ELSE IF IsNone(operand) \/ IsNone(stats.max) THEN
            Raised("TypeError", "unsupported operand type(s)", <<>>)
        ELSE IF Clips(stats, adjustment) THEN
            Raised("FFmpegNormalizeError", "Adjusting will lead to clipping",
                   << "Adjusting will lead to clipping of "
                      \o FormatFloat(stats.max.v + adjustment) \o " dB" >>)
        ELSE
            Returned(Str("volume=" \o FormatFloat(adjustment)), <<>>)

\* a builder that treats every policy other than peak as rms
PeakrmsDefaultsToRms(stats, policy) ==
    LET operand == IF policy.normalization_type = "peak" THEN stats.max ELSE stats.mean
        adjustment == Adjustment(policy.normalization_type, policy.target_level, stats)
    IN  IF IsNone(operand) \/ IsNone(stats.max) THEN
            Raised("TypeError", "unsupported operand type(s)", <<>>)
        ELSE IF Clips(stats, adjustment) THEN
            Returned(Str("volume=" \o FormatFloat(adjustment)),
                     << "Adjusting will lead to clipping of "
                        \o FormatFloat(stats.max.v + adjustment) \o " dB" >>)
        ELSE
            Returned(Str("volume=" \o FormatFloat(adjustment)), <<>>)

\* AudioStream.get_second_pass_opts_peakrms
SecondPassOptsPeakrms(stats, policy) ==
    LET normalization_type == policy.normalization_type
        target_level == policy.target_level
        operand == IF normalization_type = "peak" THEN stats.max ELSE stats.mean
        adjustment == Adjustment(normalization_type, target_level, stats)
    IN  IF normalization_type \notin {"peak", "rms"} THEN
            Raised("FFmpegNormalizeError",
                   "Can only set adjustment for peak and RMS normalization", <<>>)
        ELSE IF IsNone(operand) THEN
            \* target_level - None
            Raised("TypeError", "unsupported operand type(s) for -", <<>>)
        ELSE IF IsNone(stats.max) THEN
            \* None + adjustment, line 209
            Raised("TypeError", "unsupported operand type(s) for +", <<>>)
        ELSE IF Clips(stats, adjustment) THEN
            Returned(Str("volume=" \o FormatFloat(adjustment)),
                     << "Adjusting will lead to clipping of "
                        \o FormatFloat(stats.max.v + adjustment) \o " dB" >>)
        ELSE
            Returned(Str("volume=" \o FormatFloat(adjustment)), <<>>)

-----------------------------------------------------------------------------
(* get_pcm_codec *)

SupportedDepths == {16, 24, 32, 64}

\* AudioStream.get_pcm_codec
GetPcmCodec(depth) ==
    IF Falsy(depth) THEN Returned(Str("pcm_s16le"), <<>>)
    ELSE IF depth.v <= 8 THEN Returned(Str("pcm_s8"), <<>>)
    ELSE IF depth.v \in SupportedDepths THEN
        Returned(Str("pcm_s" \o ToString(depth.v) \o "le"), <<>>)
    ELSE
        Returned(Str("pcm_s16le"),
                 << "Unsupported bit depth " \o ToString(depth.v)
                    \o ", falling back to pcm_s16le" >>)

-----------------------------------------------------------------------------
(* Engine output of the loudnorm pass.  A line is a sequence of words; the   *)
(* words are the marker prefix, whitespace, free text and JSON tokens.  A  *)
(* "members" word stands for a well-formed, comma-separated member list    *)
(* that decodes to the items d.                                            *)

Word(t) == [t |-> t]
Members(d) == [t |-> "members", d |-> d]
Whitespace == Word("ws")
Marker == Word("[Parsed_loudnorm")

\* the report of a measured stream, values serialized as strings
FullReport ==
    { <<"input_i", Str(<<"-", "2", "3", ".", "5">>)>>,
      <<"input_lra", Str(<<"7", ".", "1">>)>>,
      <<"input_tp", Str(<<"-", "1", ".", "2">>)>>,
      <<"input_thresh", Str(<<"-", "3", "4", ".", "0">>)>> }

\* an object without the measured input values
OtherReport == { <<"output_i", Str(<<"-", "2", "3", ".", "0">>)>> }

LoudLines ==
    { <<Marker, Word("text")>>,
      <<Whitespace, Marker, Word("text")>>,
      <<Word("text")>>,
      <<Word("{")>>,
      <<Word("}"), Whitespace>>,
      <<Word("{"), Members(FullReport), Word("}")>>,
      <<Word("{"), Members(OtherReport), Word("}")>>,
      <<Word("null")>>,
      <<Word("0")>>,
      <<Word("["), Word("]")>> }

LoudOutputs == SeqsUpTo(LoudLines, MaxLines)

RECURSIVE LStrip(_)
LStrip(line) ==
    IF line # <<>> /\ Head(line) = Whitespace THEN LStrip(Tail(line)) ELSE line

RECURSIVE RStrip(_)
RStrip(line) ==
    IF line # <<>> /\ line[Len(line)] = Whitespace
    THEN RStrip(SubSeq(line, 1, Len(line) - 1)) ELSE line

\* line.strip()
Strip(line) == RStrip(LStrip(line))

\* line.startswith('[Parsed_loudnorm')
StartsWithMarker(line) == line # <<>> /\ Head(line) = Marker

RECURSIVE JoinLines(_)
\* '\n'.join(lines)
JoinLines(lines) ==
    IF lines = <<>> THEN <<>>
    ELSE IF Len(lines) = 1 THEN lines[1]
    ELSE lines[1] \o <<Whitespace>> \o JoinLines(Tail(lines))

\* json.loads(text): [ok |-> TRUE, v |-> value] or [ok |-> FALSE] for a decode error
JsonLoads(text) ==
    LET toks == SelectSeq(text, LAMBDA w : w # Whitespace)
    IN  IF toks = <<Word("null")>> THEN [ok |-> TRUE, v |-> None]
        ELSE IF toks = <<Word("0")>> THEN [ok |-> TRUE, v |-> PyInt(0)]
        ELSE IF toks = <<Word("["), Word("]")>> THEN [ok |-> TRUE, v |-> List(<<>>)]
        ELSE IF toks = <<Word("{"), Word("}")>> THEN [ok |-> TRUE, v |-> Dict({})]
        ELSE IF /\ Len(toks) = 3
                /\ toks[1] = Word("{")
                /\ toks[2].t = "members"
                /\ toks[3] = Word("}")
             THEN [ok |-> TRUE, v |-> Dict(toks[2].d)]
        ELSE [ok |-> FALSE]

RECURSIVE FirstMarker(_, _)
\* the for loop of lines 139-143: the 0-based index of the first line that
\* starts with the marker, or False (here None) when the loop ends without one
FirstMarker(output_lines, index) ==
    IF index >= Len(output_lines) THEN None
    ELSE IF StartsWithMarker(output_lines[index + 1]) THEN PyInt(index)
    ELSE FirstMarker(output_lines, index + 1)

\* `not loudnorm_start` of line 145
NoStart(loudnorm_start) == Falsy(loudnorm_start)

\* a loudnorm pass that drops the stored report when it fails
LoudnormStatsClearsOnFailure(stats, output) ==
    LET output_lines == [i \in 1..Len(output) |-> Strip(output[i])]
        loudnorm_start == FirstMarker(output_lines, 0)
        loudnorm_stats ==
            JsonLoads(JoinLines(SubSeq(output_lines, loudnorm_start.v + 2,
                                       Len(output_lines))))
    IN  IF NoStart(loudnorm_start) \/ ~loudnorm_stats.ok THEN
            [stats |-> [stats EXCEPT !.ebu = None],
             result |-> Raised("FFmpegNormalizeError", "Could not parse loudnorm stats", <<>>)]
        ELSE
            [stats |-> [stats EXCEPT !.ebu = loudnorm_stats.v],
             result |-> Returned(None, <<>>)]

\* AudioStream.parse_loudnorm_stats on engine output `output` (lines 138-155)
LoudnormStats(stats, output) ==
    LET output_lines == [i \in 1..Len(output) |-> Strip(output[i])]
        loudnorm_start == FirstMarker(output_lines, 0)
        loudnorm_stats ==
            JsonLoads(JoinLines(SubSeq(output_lines, loudnorm_start.v + 2,
                                       Len(output_lines))))
    IN  IF NoStart(loudnorm_start) THEN
            [stats |-> stats,
             result |-> Raised("FFmpegNormalizeError", "Could not parse loudnorm stats", <<>>)]
        ELSE IF ~loudnorm_stats.ok THEN
            [stats |-> stats,
             result |-> Raised("FFmpegNormalizeError", "Could not parse loudnorm stats", <<>>)]
        ELSE
            [stats |-> [stats EXCEPT !.ebu = loudnorm_stats.v],
             result |-> Returned(None, <<>>)]

-----------------------------------------------------------------------------
(* Second pass, loudnorm *)

\* '{}'.format(v) of an option value
FormatValue(v) == IF v.tag = "float" THEN FormatFloat(v.v) ELSE v.v

RECURSIVE DictToFilterOpts(_)
\* _cmd_utils.dict_to_filter_opts: "k=v:k=v:..." in the mapping's order
DictToFilterOpts(opts) ==
    IF opts = <<>> THEN ""
    ELSE opts[1][1] \o "=" \o FormatValue(opts[1][2])
         \o (IF Len(opts) = 1 THEN "" ELSE ":" \o DictToFilterOpts(Tail(opts)))

\* the keys read from the report, in the order lines 172-175 read them
MeasuredKeys == <<"input_i", "input_lra", "input_tp", "input_thresh">>

\* float(ebu[key]): a value, a KeyError or a ValueError
Measured(ebu, key) ==
    IF ~HasKey(ebu, key) THEN [ok |-> FALSE, error |-> "KeyError"]
    ELSE LET f == PyFloat(Get(ebu, key).v)
         IN  IF f.ok THEN [ok |-> TRUE, v |-> Float(f.v)]
             ELSE [ok |-> FALSE, error |-> "ValueError"]

\* the dict literal of lines 167-178
EbuOpts(ebu, policy) ==
    << <<"i", Float(policy.target_level)>>,
       <<"lra", Float(policy.loudness_range_target)>>,
       <<"tp", Float(policy.true_peak)>>,
       <<"offset", Float(policy.offset)>>,
       <<"measured_i", Measured(ebu, "input_i").v>>,
       <<"measured_lra", Measured(ebu, "input_lra").v>>,
       <<"measured_tp", Measured(ebu, "input_tp").v>>,
       <<"measured_thresh", Measured(ebu, "input_thresh").v>>,
       <<"linear", Str("true")>>,
       <<"print_format", Str("json")>> >>

\* a dual_mono option inserted ahead of the others
WithDualMonoFirst(opts, policy) ==
    IF policy.dual_mono THEN <<<<"dual_mono", Str("true")>>>> \o opts ELSE opts

\* lines 180-181
WithDualMono(opts, policy) ==
    IF policy.dual_mono THEN Append(opts, <<"dual_mono", Str("true")>>) ELSE opts

\* AudioStream.get_second_pass_opts_ebu
SecondPassOptsEbu(stats, policy) ==
    LET ebu == stats.ebu
        failing == SelectSeq(MeasuredKeys, LAMBDA k : ~Measured(ebu, k).ok)
        opts == WithDualMono(EbuOpts(ebu, policy), policy)
    IN  IF Falsy(ebu) THEN
            Raised("FFmpegNormalizeError",
                   "First pass not run, you must call parse_loudnorm_stats first", <<>>)
        ELSE IF ebu.tag # "dict" THEN
            Raised("TypeError", "object is not subscriptable", <<>>)
        ELSE IF failing # <<>> THEN
            Raised(Measured(ebu, failing[1]).error, failing[1], <<>>)
        ELSE
            ReturnedWith(Str("loudnorm=" \o DictToFilterOpts(opts)), <<>>, opts)

-----------------------------------------------------------------------------
(* The state machine *)

\* AudioStream.__init__, lines 39-43
NoStatistics == [ebu |-> None, mean |-> None, max |-> None]

NoCall ==
    [op |-> "none", stream |-> 0, arg |-> None, result |-> Returned(None, <<>>),
     engine |-> <<>>, repeated |-> FALSE]

\* no first pass was called on the stream, none returned
NoPass == [called |-> {}, passed |-> {}]

\* AudioStream(media_file, stream_id, sample_rate, bit_depth) for the streams
\* `ids`, with the bit depths among `depths`
ConstructStreams(ids, depths) ==
    /\ streams = ids
    /\ loudness_statistics = [s \in streams |-> NoStatistics]
    /\ bit_depth \in [streams -> depths]
    /\ first_pass = [s \in streams |-> NoPass]
    /\ last = NoCall

\* AudioStream(media_file, stream_id, sample_rate, bit_depth) for one stream,
\* with the bit depth among `depths`
Construct(depths) == ConstructStreams({1}, depths)

\* The stream is used synchronously: a method is called when no call is in
\* progress, runs to its return or raise, and the caller then takes the result.
Idle == last = NoCall

ReturnToCaller ==
    /\ ~Idle
    /\ last' = NoCall
    /\ UNCHANGED <<streams, loudness_statistics, bit_depth, first_pass>>

\* The caller calls the method of the most recent call once more on the same
\* stream and the engine produces the same output again.
Again(s, op) ==
    /\ last.op = op
    /\ last.stream = s
    /\ ~last.repeated

\* first_pass of stream s after a call of `op` that ended as `result`
Passed(s, op, result) ==
    [first_pass EXCEPT
        ![s] = [called |-> @.called \cup {op},
                passed |-> IF result.outcome = "return" THEN @.passed \cup {op}
                           ELSE @.passed]]

\* a first pass that runs the engine again when mean_volume is missing
VolumedetectRetries(s, output) ==
    IF FindAll("mean_volume", output) = <<>>
    THEN << [stream |-> s, filter |-> "volumedetect"],
            [stream |-> s, filter |-> "volumedetect"] >>
    ELSE << [stream |-> s, filter |-> "volumedetect"] >>

\* the run_command calls of parse_volumedetect_stats (line 83), whose result is `output`
VolumedetectCommands(s, output) == << [stream |-> s, filter |-> "volumedetect"] >>

\* the run_command calls of parse_loudnorm_stats (line 133), whose result is `output`
LoudnormCommands(s, output) == << [stream |-> s, filter |-> "loudnorm"] >>

get_pcm_codec(s) ==
    /\ Idle
    /\ last' = [op |-> "get_pcm_codec", stream |-> s, arg |-> None,
                result |-> GetPcmCodec(bit_depth[s]),
                engine |-> <<>>, repeated |-> FALSE]
    /\ UNCHANGED <<streams, loudness_statistics, bit_depth, first_pass>>

\* a run that writes one statistics record shared by every stream
VolumedetectCallShared(s, output, repeated) ==
    LET r == VolumedetectStats(loudness_statistics[s], output)
    IN  /\ loudness_statistics' = [t \in streams |-> r.stats]
        /\ first_pass' = Passed(s, "parse_volumedetect_stats", r.result)
        /\ last' = [op |-> "parse_volumedetect_stats", stream |-> s, arg |-> output,
                    result |-> r.result,
                    engine |-> VolumedetectCommands(s, output), repeated |-> repeated]
        /\ UNCHANGED <<streams, bit_depth>>

\* one run of parse_volumedetect_stats on stream s
VolumedetectCall(s, output, repeated) ==
    LET r == VolumedetectStats(loudness_statistics[s], output)
    IN  /\ loudness_statistics' = [loudness_statistics EXCEPT ![s] = r.stats]
        /\ first_pass' = Passed(s, "parse_volumedetect_stats", r.result)
        /\ last' = [op |-> "parse_volumedetect_stats", stream |-> s, arg |-> output,
                    result |-> r.result,
                    engine |-> VolumedetectCommands(s, output), repeated |-> repeated]
        /\ UNCHANGED <<streams, bit_depth>>

parse_volumedetect_stats(s, output) ==
    /\ Idle
    /\ VolumedetectCall(s, output, FALSE)

parse_volumedetect_stats_again(s) ==
    /\ Again(s, "parse_volumedetect_stats")
    /\ VolumedetectCall(s, last.arg, TRUE)

\* one run of parse_loudnorm_stats on stream s
LoudnormCall(s, output, repeated) ==
    LET r == LoudnormStats(loudness_statistics[s], output)
    IN  /\ loudness_statistics' = [loudness_statistics EXCEPT ![s] = r.stats]
        /\ first_pass' = Passed(s, "parse_loudnorm_stats", r.result)
        /\ last' = [op |-> "parse_loudnorm_stats", stream |-> s, arg |-> output,
                    result |-> r.result,
                    engine |-> LoudnormCommands(s, output), repeated |-> repeated]
        /\ UNCHANGED <<streams, bit_depth>>

parse_loudnorm_stats(s, output) ==
    /\ Idle
    /\ LoudnormCall(s, output, FALSE)

parse_loudnorm_stats_again(s) ==
    /\ Again(s, "parse_loudnorm_stats")
    /\ LoudnormCall(s, last.arg, TRUE)

get_second_pass_opts_ebu(s, policy) ==
    /\ Idle
    /\ last' = [op |-> "get_second_pass_opts_ebu", stream |-> s, arg |-> policy,
                result |-> SecondPassOptsEbu(loudness_statistics[s], policy),
                engine |-> <<>>, repeated |-> FALSE]
    /\ UNCHANGED <<streams, loudness_statistics, bit_depth, first_pass>>

get_second_pass_opts_peakrms(s, policy) ==
    /\ Idle
    /\ last' = [op |-> "get_second_pass_opts_peakrms", stream |-> s, arg |-> policy,
                result |-> SecondPassOptsPeakrms(loudness_statistics[s], policy),
                engine |-> <<>>, repeated |-> FALSE]
    /\ UNCHANGED <<streams, loudness_statistics, bit_depth, first_pass>>

-----------------------------------------------------------------------------
(* Specifications *)

\* bit depths of the streams of Spec and SpecVol
SomeBitDepths == {None, PyInt(12)}

\* The whole stream: both first passes, both second passes and the codec
\* selection, in any order, on engine outputs of at most MaxLines lines.
Init == Construct(SomeBitDepths)

Next ==
    \/ \E s \in streams : get_pcm_codec(s)
    \/ \E s \in streams, output \in VolOutputs : parse_volumedetect_stats(s, output)
    \/ \E s \in streams, output \in LoudOutputs : parse_loudnorm_stats(s, output)
    \/ \E s \in streams : parse_volumedetect_stats_again(s)
    \/ \E s \in streams : parse_loudnorm_stats_again(s)
    \/ \E s \in streams, policy \in Policies : get_second_pass_opts_ebu(s, policy)
    \/ \E s \in streams, policy \in Policies : get_second_pass_opts_peakrms(s, policy)
    \/ ReturnToCaller

Spec == Init /\ [][Next]_vars

\* Peak/RMS normalization: the volumedetect pass and its second pass, on
\* engine outputs of at most MaxLines lines.
NextVol ==
    \/ \E s \in streams : get_pcm_codec(s)
    \/ \E s \in streams, output \in VolOutputs : parse_volumedetect_stats(s, output)
    \/ \E s \in streams : parse_volumedetect_stats_again(s)
    \/ \E s \in streams, policy \in Policies : get_second_pass_opts_peakrms(s, policy)
    \/ ReturnToCaller

SpecVol == Init /\ [][NextVol]_vars

\* EBU normalization: the loudnorm pass and its second pass, on engine
\* outputs of at most MaxLines lines.
InitEbu == Construct({None})

NextEbu ==
    \/ \E s \in streams, output \in LoudOutputs : parse_loudnorm_stats(s, output)
    \/ \E s \in streams : parse_loudnorm_stats_again(s)
    \/ \E s \in streams, policy \in Policies : get_second_pass_opts_ebu(s, policy)
    \/ ReturnToCaller

SpecEbu == InitEbu /\ [][NextEbu]_vars

\* Codec selection over every bit depth of BitDepths.
BitDepths == {None} \cup {PyInt(d) : d \in 0..MaxBitDepth}

InitCodec == Construct(BitDepths)

NextCodec ==
    \/ \E s \in streams : get_pcm_codec(s)
    \/ ReturnToCaller

SpecCodec == InitCodec /\ [][NextCodec]_vars

\* Both first passes on one stream, on outputs whose numbers are decimal
\* numbers and whose JSON documents stand on one line.
PlainVolLines ==
    { VolLine("mean_volume", <<"-", "1", "3", ".", "2">>),
      VolLine("mean_volume", <<"-", "1", ".", "0">>),
      VolLine("max_volume", <<"-", "3", ".", "1">>),
      VolLine("max_volume", <<"-", "1", ".", "0">>),
      VolLine("n_samples", <<"4", "8", "0", "0", "0">>) }

PlainLoudLines ==
    { <<Marker, Word("text")>>,
      <<Word("text")>>,
      <<Word("{"), Members(FullReport), Word("}")>>,
      <<Word("null")>>,
      <<Word("0")>> }

NextBoth ==
    \/ \E s \in streams, output \in SeqsUpTo(PlainVolLines, MaxLines) :
          parse_volumedetect_stats(s, output)
    \/ \E s \in streams, output \in SeqsUpTo(PlainLoudLines, MaxLines) :
          parse_loudnorm_stats(s, output)
    \/ \E s \in streams : parse_volumedetect_stats_again(s)
    \/ \E s \in streams : parse_loudnorm_stats_again(s)
    \/ \E s \in streams, policy \in Policies : get_second_pass_opts_ebu(s, policy)
    \/ \E s \in streams, policy \in Policies : get_second_pass_opts_peakrms(s, policy)
    \/ ReturnToCaller

SpecBoth == InitEbu /\ [][NextBoth]_vars

\* Two streams, used in any interleaving of their calls.
PairVolLines ==
    { VolLine("mean_volume", <<"-", "1", "3", ".", "2">>),
      VolLine("max_volume", <<"-", "3", ".", "1">>),
      VolLine("n_samples", <<"4", "8", "0", "0", "0">>) }

PairLoudLines ==
    { <<Marker, Word("text")>>,
      <<Word("text")>>,
      <<Word("{"), Members(FullReport), Word("}")>> }

PairPolicies == {policy \in Policies : policy.target_level = 0 /\ ~policy.dual_mono}

InitPair == ConstructStreams({1, 2}, {None})

NextPair ==
    \/ \E s \in streams, output \in SeqsUpTo(PairVolLines, MaxLines) :
          parse_volumedetect_stats(s, output)
    \/ \E s \in streams, output \in SeqsUpTo(PairLoudLines, MaxLines) :
          parse_loudnorm_stats(s, output)
    \/ \E s \in streams, policy \in PairPolicies : get_second_pass_opts_ebu(s, policy)
    \/ \E s \in streams, policy \in PairPolicies : get_second_pass_opts_peakrms(s, policy)
    \/ ReturnToCaller

SpecPair == InitPair /\ [][NextPair]_vars

-----------------------------------------------------------------------------
(* Properties *)

\* the statistics record of the stream of the most recent call
LastStats == loudness_statistics[last.stream]

LastIs(op) == last.op = op

Failed(error, message) ==
    /\ last.result.outcome = "raise"
    /\ last.result.error = error
    /\ last.result.message = message
    /\ last.result.ret = None

FirstPassNotRun ==
    Failed("FFmpegNormalizeError",
           "First pass not run, you must call parse_loudnorm_stats first")

\* C1: a second-pass builder called on a stream whose matching first pass
\* has not succeeded fails with the program's own FFmpegNormalizeError and
\* returns nothing: get_second_pass_opts_ebu while 'ebu' is unset, and
\* get_second_pass_opts_peakrms (policy peak or rms) while 'max', which only
\* a successful volumedetect pass sets, is unset.
C1_PrerequisiteOrdering ==
    /\ (LastIs("get_second_pass_opts_ebu") /\ LastStats.ebu = None) => FirstPassNotRun
    /\ ( /\ LastIs("get_second_pass_opts_peakrms")
         /\ last.arg.normalization_type \in {"peak", "rms"}
         /\ LastStats.max = None )
       => /\ last.result.outcome = "raise"
          /\ last.result.error = "FFmpegNormalizeError"
          /\ last.result.ret = None

\* C2: 'mean' and 'max' of every stream are both populated or both
\* unpopulated, in every reachable state.
C2_MeanMaxTogether ==
    \A s \in streams :
        (loudness_statistics[s].mean = None) <=> (loudness_statistics[s].max = None)

\* the lines of `output` that begin with the marker, surrounding whitespace aside
MarkerLines(output) == {i \in 1..Len(output) : StartsWithMarker(Strip(output[i]))}

\* what follows the first marker line, decoded
ReportAfterMarker(output) ==
    LET first == CHOOSE i \in MarkerLines(output) : \A j \in MarkerLines(output) : i <= j
    IN  JsonLoads(JoinLines([k \in 1..(Len(output) - first) |-> Strip(output[first + k])]))

\* C3: parse_loudnorm_stats fails with "Could not parse loudnorm stats"
\* exactly when no line begins with the marker or the text after the first
\* marker line is not valid JSON; otherwise it succeeds and 'ebu' holds the
\* decoded report.
C3_LoudnormParseOutcome ==
    LastIs("parse_loudnorm_stats") =>
        LET output == last.arg
            parseable == MarkerLines(output) # {} /\ ReportAfterMarker(output).ok
        IN  IF parseable
            THEN /\ last.result.outcome = "return"
                 /\ LastStats.ebu = ReportAfterMarker(output).v
            ELSE Failed("FFmpegNormalizeError", "Could not parse loudnorm stats")

\* the lines "<key>: <float> dB" of `output`: the number is a decimal float
FloatLines(key, output) ==
    {i \in 1..Len(output) : output[i].key = key /\ PyFloat(output[i].val).ok}

\* C4: parse_volumedetect_stats succeeds exactly when the output has a
\* "mean_volume: <float> dB" and a "max_volume: <float> dB" line; then 'mean'
\* and 'max' hold matched values; otherwise it fails with the program's
\* FFmpegNormalizeError and the value whose line is missing is not filled in.
C4_VolumedetectParseOutcome ==
    LastIs("parse_volumedetect_stats") =>
        LET output == last.arg
            means == FloatLines("mean_volume", output)
            maxes == FloatLines("max_volume", output)
        IN  IF means # {} /\ maxes # {}
            THEN /\ last.result.outcome = "return"
                 /\ \E i \in means : LastStats.mean = Float(PyFloat(output[i].val).v)
                 /\ \E i \in maxes : LastStats.max = Float(PyFloat(output[i].val).v)
            ELSE /\ last.result.outcome = "raise"
                 /\ last.result.error = "FFmpegNormalizeError"

Populated == LastStats.mean # None /\ LastStats.max # None

\* the gain the policy of the most recent call asks for
ExpectedAdjustment ==
    IF last.arg.normalization_type = "peak"
    THEN last.arg.target_level - LastStats.max.v
    ELSE last.arg.target_level - LastStats.mean.v

\* C5: with 'mean' and 'max' populated, get_second_pass_opts_peakrms
\* returns "volume=<adjustment>" where the adjustment is target_level - max
\* under peak and target_level - mean under rms, so that max + adjustment
\* (peak) or mean + adjustment (rms) is the target level.
C5_PeakRmsGain ==
    ( /\ LastIs("get_second_pass_opts_peakrms")
      /\ last.arg.normalization_type \in {"peak", "rms"}
      /\ Populated )
    => /\ last.result.outcome = "return"
       /\ \E adjustment \in -400..400 :
            /\ last.result.ret = Str("volume=" \o FormatFloat(adjustment))
            /\ last.arg.normalization_type = "peak"
                 => LastStats.max.v + adjustment = last.arg.target_level
            /\ last.arg.normalization_type = "rms"
                 => LastStats.mean.v + adjustment = last.arg.target_level

\* C5 witness: mean -13.2, max -3.1, policy peak, target -5.0: volume=-1.9
C5_Witness ==
    /\ LastIs("get_second_pass_opts_peakrms")
    /\ last.arg.normalization_type = "peak"
    /\ last.arg.target_level = -50
    /\ LastStats.mean = Float(-132)
    /\ LastStats.max = Float(-31)
    /\ last.result.ret = Str("volume=-1.9")

\* C6: under peak and rms alike, get_second_pass_opts_peakrms emits the
\* clipping advisory exactly when max + adjustment > 0; at 0 or below there
\* is none.
C6_ClippingAdvisory ==
    ( /\ LastIs("get_second_pass_opts_peakrms")
      /\ last.arg.normalization_type \in {"peak", "rms"}
      /\ Populated )
    => IF LastStats.max.v + ExpectedAdjustment > 0
       THEN last.result.warnings =
                << "Adjusting will lead to clipping of "
                   \o FormatFloat(LastStats.max.v + ExpectedAdjustment) \o " dB" >>
       ELSE last.result.warnings = <<>>

\* C6 witness: rms policy, mean = max = -1.0, target 0.0: the adjustment is
\* 1.0, max + adjustment is exactly 0 and there is no advisory
C6_Witness ==
    /\ LastIs("get_second_pass_opts_peakrms")
    /\ last.arg.normalization_type = "rms"
    /\ last.arg.target_level = 0
    /\ LastStats.mean = Float(-10)
    /\ LastStats.max = Float(-10)
    /\ last.result.ret = Str("volume=1.0")
    /\ last.result.warnings = <<>>

Warned == last.result.warnings # <<>>

\* C7: a call that emitted a warning still returns its value,
\* "volume=<adjustment>" from get_second_pass_opts_peakrms and a codec from
\* get_pcm_codec, and a get_second_pass_opts_peakrms or get_pcm_codec call
\* leaves every statistics record as it was.
C7_WarningsAdvisory ==
    /\ [] ( /\ (LastIs("get_second_pass_opts_peakrms") /\ Warned)
               => /\ last.result.outcome = "return"
                  /\ last.result.ret = Str("volume=" \o FormatFloat(ExpectedAdjustment))
            /\ (LastIs("get_pcm_codec") /\ Warned)
               => /\ last.result.outcome = "return"
                  /\ last.result.ret = Str("pcm_s16le") )
    /\ [][ last'.op \in {"get_second_pass_opts_peakrms", "get_pcm_codec"}
           => loudness_statistics' = loudness_statistics ]_vars

\* C7 witness: the clipping advisory was emitted and the volume option returned
C7_Witness ==
    /\ LastIs("get_second_pass_opts_peakrms")
    /\ Warned
    /\ last.result.outcome = "return"
    /\ Populated
    /\ bit_depth[last.stream] = PyInt(12)

\* C8: for a policy other than peak and rms, get_second_pass_opts_peakrms
\* fails with "Can only set adjustment for peak and RMS normalization",
\* returns nothing and emits no advisory, populated statistics or not.
C8_UnsupportedPolicy ==
    (LastIs("get_second_pass_opts_peakrms") /\ last.arg.normalization_type \notin {"peak", "rms"})
    => /\ Failed("FFmpegNormalizeError",
                 "Can only set adjustment for peak and RMS normalization")
       /\ last.result.warnings = <<>>

\* C8 witness: the ebu policy with peak/RMS statistics populated (a target
\* for which peak and rms would clip)
C8_Witness ==
    /\ LastIs("get_second_pass_opts_peakrms")
    /\ last.arg.normalization_type = "ebu"
    /\ last.arg.target_level = 10
    /\ Populated
    /\ last.result.outcome = "raise"

\* C9: get_pcm_codec maps an unknown bit depth to pcm_s16le without warning,
\* every known depth <= 8 (0 included) to pcm_s8, 16/24/32/64 to
\* pcm_s<depth>le, and every other depth to pcm_s16le with exactly one warning.
C9_PcmCodecMapping ==
    LastIs("get_pcm_codec") =>
        LET depth == bit_depth[last.stream]
        IN  /\ last.result.outcome = "return"
            /\ IF depth = None THEN
                   last.result.ret = Str("pcm_s16le") /\ ~Warned
               ELSE IF depth.v <= 8 THEN
                   last.result.ret = Str("pcm_s8") /\ ~Warned
               ELSE IF depth.v \in {16, 24, 32, 64} THEN
                   last.result.ret = Str("pcm_s" \o ToString(depth.v) \o "le") /\ ~Warned
               ELSE
                   last.result.ret = Str("pcm_s16le") /\ Len(last.result.warnings) = 1

\* a report with the four measured input values
StructuredReport(ebu) ==
    /\ ebu.tag = "dict"
    /\ \A i \in 1..Len(MeasuredKeys) :
          HasKey(ebu, MeasuredKeys[i]) /\ PyFloat(Get(ebu, MeasuredKeys[i]).v).ok

BaseKeys ==
    << "i", "lra", "tp", "offset", "measured_i", "measured_lra", "measured_tp",
       "measured_thresh", "linear", "print_format" >>

\* C10: with a structured report in 'ebu', get_second_pass_opts_ebu builds
\* the options i, lra, tp, offset, measured_i, measured_lra, measured_tp,
\* measured_thresh, linear, print_format in this order, the first four from
\* the policy, the measured ones from input_i, input_lra, input_tp and
\* input_thresh of the report, linear=true, print_format=json, and
\* dual_mono=true last exactly when the policy enables dual-mono.
C10_EbuOptionMapping ==
    (LastIs("get_second_pass_opts_ebu") /\ StructuredReport(LastStats.ebu)) =>
        LET opts == last.result.opts
            policy == last.arg
            ebu == LastStats.ebu
            value(key) == Float(PyFloat(Get(ebu, key).v).v)
        IN  /\ last.result.outcome = "return"
            /\ [i \in 1..Len(opts) |-> opts[i][1]] =
                   IF policy.dual_mono THEN Append(BaseKeys, "dual_mono") ELSE BaseKeys
            /\ [i \in 1..10 |-> opts[i][2]] =
                   << Float(policy.target_level), Float(policy.loudness_range_target),
                      Float(policy.true_peak), Float(policy.offset),
                      value("input_i"), value("input_lra"), value("input_tp"),
                      value("input_thresh"), Str("true"), Str("json") >>
            /\ policy.dual_mono => opts[11][2] = Str("true")

\* C10 witness: the report -23.5 / 7.1 / -1.2 / -34.0 with dual-mono enabled
C10_Witness ==
    /\ LastIs("get_second_pass_opts_ebu")
    /\ last.arg.dual_mono
    /\ last.arg.target_level = -230
    /\ last.result.ret =
         Str("loudnorm=i=-23.0:lra=7.0:tp=-2.0:offset=0.5:measured_i=-23.5:"
             \o "measured_lra=7.1:measured_tp=-1.2:measured_thresh=-34.0:"
             \o "linear=true:print_format=json:dual_mono=true")

PeakRmsPopulated(s) ==
    loudness_statistics[s].mean # None \/ loudness_statistics[s].max # None

EbuPopulated(s) == loudness_statistics[s].ebu # None

\* C11 (as claimed): after any sequence of first-pass parses, no stream has
\* both the peak/RMS family and the ebu family populated.
C11_OneFamily == \A s \in streams : ~(PeakRmsPopulated(s) /\ EbuPopulated(s))

\* C11 (amended): a stream on which at most one of the two first-pass
\* parsers has been called has at most one family populated, and a family
\* is populated only after its own parser was called.
C11_OneFamilyPerParser ==
    \A s \in streams :
        /\ Cardinality(first_pass[s].called) <= 1
             => ~(PeakRmsPopulated(s) /\ EbuPopulated(s))
        /\ PeakRmsPopulated(s) => "parse_volumedetect_stats" \in first_pass[s].called
        /\ EbuPopulated(s) => "parse_loudnorm_stats" \in first_pass[s].called

\* C11 witness: only the volumedetect pass was called, it succeeded, and
\* the ebu family is unpopulated
C11_Witness ==
    /\ LastIs("parse_volumedetect_stats")
    /\ last.result.outcome = "return"
    /\ first_pass[last.stream].called = {"parse_volumedetect_stats"}
    /\ LastStats.max # None
    /\ LastStats.ebu = None

\* the statistics and the result of the most recent call, as the called
\* method yields them from the stream's own record before the call
OwnOutcome(before) ==
    CASE last'.op = "parse_volumedetect_stats" ->
            LET r == VolumedetectStats(before, last'.arg)
            IN  loudness_statistics'[last'.stream] = r.stats /\ last'.result = r.result
      [] last'.op = "parse_loudnorm_stats" ->
            LET r == LoudnormStats(before, last'.arg)
            IN  loudness_statistics'[last'.stream] = r.stats /\ last'.result = r.result
      [] last'.op = "get_second_pass_opts_ebu" ->
            last'.result = SecondPassOptsEbu(before, last'.arg)
      [] last'.op = "get_second_pass_opts_peakrms" ->
            last'.result = SecondPassOptsPeakrms(before, last'.arg)
      [] OTHER -> TRUE

\* C12: under every interleaving of calls on two streams, a call on one
\* stream leaves the statistics record of the other stream unchanged, and
\* its effect and result are those the method yields from the stream's own
\* record alone.
C12_StreamsIndependent ==
    [][ /\ \A s \in streams :
             s # last'.stream => loudness_statistics'[s] = loudness_statistics[s]
        /\ last'.op # "none" => OwnOutcome(loudness_statistics[last'.stream]) ]_vars

\* C12 witness: stream 1 measured by volumedetect, stream 2 by loudnorm, each
\* holding only its own measurement
C12_Witness ==
    /\ streams = {1, 2}
    /\ LastIs("parse_loudnorm_stats")
    /\ last.stream = 2
    /\ loudness_statistics[1] = [ebu |-> None, mean |-> Float(-132), max |-> Float(-31)]
    /\ loudness_statistics[2] = [ebu |-> Dict(FullReport), mean |-> None, max |-> None]

\* no match for mean_volume or max_volume, or no marker line
Unparseable ==
    \/ /\ LastIs("parse_volumedetect_stats")
       /\ \/ \A i \in 1..Len(last.arg) : ~LineMatches("mean_volume", last.arg[i])
          \/ \A i \in 1..Len(last.arg) : ~LineMatches("max_volume", last.arg[i])
    \/ /\ LastIs("parse_loudnorm_stats")
       /\ \A i \in 1..Len(last.arg) : ~StartsWithMarker(Strip(last.arg[i]))

\* C13: a call of parse_volumedetect_stats or parse_loudnorm_stats runs the
\* engine exactly once, with its own filter on its own stream; when the
\* output cannot be parsed the call raises, still after one engine run.
C13_NoRetry ==
    /\ LastIs("parse_volumedetect_stats")
         => last.engine = << [stream |-> last.stream, filter |-> "volumedetect"] >>
    /\ LastIs("parse_loudnorm_stats")
         => last.engine = << [stream |-> last.stream, filter |-> "loudnorm"] >>
    /\ Unparseable => last.result.outcome = "raise" /\ Len(last.engine) = 1

\* C13 witness: a volumedetect pass without a mean_volume match raised
C13_Witness ==
    /\ LastIs("parse_volumedetect_stats")
    /\ Unparseable
    /\ last.result.outcome = "raise"
    /\ Len(last.engine) = 1

\* C14: a second first-pass parse of a stream on the same engine output,
\* after the first returned, leaves the statistics record as the first call
\* left it and returns the same result.
C14_ParseIdempotent ==
    [][ (last'.repeated /\ last.result.outcome = "return")
          => /\ loudness_statistics' = loudness_statistics
             /\ last'.result = last.result ]_vars

\* C14 witness: a volumedetect pass was repeated on an output with two
\* different mean_volume matches and returned
C14_Witness ==
    /\ LastIs("parse_volumedetect_stats")
    /\ last.repeated
    /\ last.result.outcome = "return"
    /\ Len(FindAll("mean_volume", last.arg)) = 2
    /\ FindAll("mean_volume", last.arg)[1] # FindAll("mean_volume", last.arg)[2]

\* C15: a call of parse_volumedetect_stats, returning or raising, leaves
\* 'ebu' of every stream unchanged; a call of parse_loudnorm_stats, returning
\* or raising, leaves 'mean' and 'max' unchanged; 'ebu' is populated only on
\* a stream on which parse_loudnorm_stats has returned.
C15_OwnFamilyStep ==
    /\ [](\A s \in streams :
            EbuPopulated(s) => "parse_loudnorm_stats" \in first_pass[s].passed)
    /\ [][ \A s \in streams :
             /\ last'.op = "parse_volumedetect_stats"
                  => loudness_statistics'[s].ebu = loudness_statistics[s].ebu
             /\ last'.op = "parse_loudnorm_stats"
                  => /\ loudness_statistics'[s].mean = loudness_statistics[s].mean
                     /\ loudness_statistics'[s].max = loudness_statistics[s].max ]_vars

\* C15 witness: a volumedetect pass wrote 'mean' and 'max' on a stream that
\* already held a loudnorm report, and the report is still there
C15_Witness ==
    /\ LastIs("parse_volumedetect_stats")
    /\ last.result.outcome = "return"
    /\ LastStats.ebu = Dict(FullReport)
    /\ LastStats.mean # None
    /\ LastStats.max # None

\* the first line of the output that matches the expression for key
FirstMatch(key, output) ==
    LET i == CHOOSE n \in 1..Len(output) :
                 /\ LineMatches(key, output[n])
                 /\ \A m \in 1..(n - 1) : ~LineMatches(key, output[m])
    IN  output[i].val

\* C16: after parse_volumedetect_stats returned, 'mean' is the value of the
\* first mean_volume match of the output and 'max' the value of the first
\* max_volume match, both of them numbers.
C16_FirstMatchTaken ==
    (LastIs("parse_volumedetect_stats") /\ last.result.outcome = "return")
      => /\ \E n \in 1..Len(last.arg) : LineMatches("mean_volume", last.arg[n])
         /\ \E n \in 1..Len(last.arg) : LineMatches("max_volume", last.arg[n])
         /\ PyFloat(FirstMatch("mean_volume", last.arg)).ok
         /\ PyFloat(FirstMatch("max_volume", last.arg)).ok
         /\ LastStats.mean = Float(PyFloat(FirstMatch("mean_volume", last.arg)).v)
         /\ LastStats.max = Float(PyFloat(FirstMatch("max_volume", last.arg)).v)

\* C16 witness: the pass returned on an output with two different
\* max_volume matches
C16_Witness ==
    /\ LastIs("parse_volumedetect_stats")
    /\ last.result.outcome = "return"
    /\ Len(FindAll("max_volume", last.arg)) = 2
    /\ FindAll("max_volume", last.arg)[1] # FindAll("max_volume", last.arg)[2]

\* C17 (as claimed): on a stream on which parse_loudnorm_stats has returned
\* without error, get_second_pass_opts_ebu does not fail with the
\* 'first pass not run' error.
C17_PassEnablesSecondPass ==
    ( /\ LastIs("get_second_pass_opts_ebu")
      /\ "parse_loudnorm_stats" \in first_pass[last.stream].passed )
      => ~FirstPassNotRun

\* C18: a call of parse_loudnorm_stats that raises leaves the statistics
\* record of every stream as it was before the call.
C18_FailedPassKeepsRecord ==
    [][ (last'.op = "parse_loudnorm_stats" /\ last'.result.outcome = "raise")
          => loudness_statistics' = loudness_statistics ]_vars

\* C18 witness: a loudnorm pass raised on a stream that holds a report and
\* volumedetect values of earlier passes
C18_Witness ==
    /\ LastIs("parse_loudnorm_stats")
    /\ last.result.outcome = "raise"
    /\ LastStats.ebu = Dict(FullReport)
    /\ LastStats.mean # None
    /\ "parse_loudnorm_stats" \in first_pass[last.stream].passed

====
